---- MODULE Spec2Model ----
(***************************************************************************)
(* State-machine model of the title-game server (src/index.js): the room   *)
(* registry, the per-room turn state, the deck and the hands, the session  *)
(* binding of each socket, and one action per socket.io event handler.     *)
(* Each handler runs to completion before the next event is dispatched     *)
(* (single-threaded event loop), so each handler is one atomic action.     *)
(***************************************************************************)
EXTENDS Integers, Sequences, FiniteSets, TLC

\* ---------------------------------------------------------------- bounds
\* Size of the card catalog (cards.json is loaded at startup, index.js:24).
NumCards == 8
\* Highest turn number a room is allowed to reach in the model.
MaxTurn == 2
\* Longest votedPlayers list a room is allowed to reach in the model.
MaxVoted == 1
\* Highest vote tally of one target a room is allowed to reach in the model.
MaxTally == 1

\* ------------------------------------------------------ program constants
\* Cards dealt on join and the size a hand is refilled to (index.js:75,177).
HandSize == 7

\* ------------------------------------------------------------ input sets
RoomIds == {"r1"}
Names == {"a", "b"}
\* Every socket id; Spec dispatches the events of the ids in MainSockets (an
\* id stands for a new connection each time it connects again).
Sockets == {"s1", "s2"}
MainSockets == {"s1"}
Titles == {"T"}
\* card payloads of discard-card: the first card of the catalog.
DiscardInputs == {1}
\* targetName payloads of vote.
VoteTargets == {"a"}

\* The value of a missing property (socket.data.roomId before any join).
Undefined == "undefined"

\* The catalog: NumCards distinct card values, in catalog order.
allCards == [i \in 1..NumCards |-> i]

\* The orders the shuffle of createNewRoom produces in the model: the
\* catalog order and its reverse (cards are opaque values, so the hands the
\* handlers see differ between the two, which is all a shuffle changes).
Shuffles == {allCards, [i \in 1..NumCards |-> NumCards + 1 - i]}

\* usedCards payloads of submit-title: arrays of length 2, 1 and 3, and a
\* value that has length 2 but is not an array (a string). A payload is the
\* pair of what Array.isArray answers and the items it holds.
Arr(items) == [isArray |-> TRUE, items |-> items]
NonArr(items) == [isArray |-> FALSE, items |-> items]
UsedCardsInputs ==
  {Arr(<<1, 2>>), Arr(<<1>>), Arr(<<1, 2, 3>>), NonArr(<<1, 2>>)}

VARIABLES
  rooms,              \* the registry: room id -> room, for the rooms created
  sockets,            \* io.sockets.sockets: live socket ids in connection order
  data,               \* socket.data of every socket id
  emitted,            \* the messages emitted by the last handler, in order
  lastJoin            \* history: per room and roster name, the socket whose
                      \* join-room put the name into the roster

vars == <<rooms, sockets, data, emitted, lastJoin>>

\* ---------------------------------------------------------------- helpers
Includes(seq, x) == \E i \in 1..Len(seq) : seq[i] = x

Filter(seq, Keep(_)) == SelectSeq(seq, Keep)

Range(seq) == {seq[i] : i \in 1..Len(seq)}

Min(a, b) == IF a < b THEN a ELSE b
Max(a, b) == IF a > b THEN a ELSE b

\* obj[key] = value on a plain object used as a map.
SetKey(obj, key, value) ==
  [k \in (DOMAIN obj) \cup {key} |-> IF k = key THEN value ELSE obj[k]]

\* delete obj[key]
DeleteKey(obj, key) == [k \in (DOMAIN obj) \ {key} |-> obj[k]]

Msg(to, ev, payload) == [to |-> to, ev |-> ev, payload |-> payload]

NoData == [roomId |-> Undefined, playerName |-> Undefined]

\* ------------------------------------------------------------- room logic
\* The room template, with the shuffled deck. _turnProcessed is not set by
\* the template (it reads undefined until the first advance): turnProcessed
\* is 0, which like undefined differs from every turn number.
createNewRoom(deck) ==
  [players |-> <<>>,
   votes |-> <<>>,
   votedPlayers |-> <<>>,
   readyPlayers |-> <<>>,
   turn |-> 1,
   submissions |-> <<>>,
   deck |-> deck,
   hands |-> <<>>,
   turnProcessed |-> 0]

\* removePlayerFromRoom without the delete of the player's tally.
removeKeepsTally(rms, roomId, playerName) ==
  IF roomId \notin DOMAIN rms THEN rms
  ELSE LET room == rms[roomId] IN
    [rms EXCEPT ![roomId] =
      [room EXCEPT
        !.players = Filter(room.players, LAMBDA n : n # playerName),
        !.votedPlayers = Filter(room.votedPlayers, LAMBDA n : n # playerName),
        !.readyPlayers = Filter(room.readyPlayers, LAMBDA n : n # playerName),
        !.hands = DeleteKey(room.hands, playerName),
        !.submissions =
          Filter(room.submissions, LAMBDA t : t.playerName # playerName)]]

\* removePlayerFromRoom without the filter of the player's submissions.
removeKeepsSubmissions(rms, roomId, playerName) ==
  IF roomId \notin DOMAIN rms THEN rms
  ELSE LET room == rms[roomId] IN
    [rms EXCEPT ![roomId] =
      [room EXCEPT
        !.players = Filter(room.players, LAMBDA n : n # playerName),
        !.votedPlayers = Filter(room.votedPlayers, LAMBDA n : n # playerName),
        !.readyPlayers = Filter(room.readyPlayers, LAMBDA n : n # playerName),
        !.votes = DeleteKey(room.votes, playerName),
        !.hands = DeleteKey(room.hands, playerName)]]

removePlayerFromRoom(rms, roomId, playerName) ==
  IF roomId \notin DOMAIN rms THEN rms
  ELSE LET room == rms[roomId] IN
    [rms EXCEPT ![roomId] =
      [room EXCEPT
        !.players = Filter(room.players, LAMBDA n : n # playerName),
        !.votedPlayers = Filter(room.votedPlayers, LAMBDA n : n # playerName),
        !.readyPlayers = Filter(room.readyPlayers, LAMBDA n : n # playerName),
        !.votes = DeleteKey(room.votes, playerName),
        !.hands = DeleteKey(room.hands, playerName),
        !.submissions =
          Filter(room.submissions, LAMBDA t : t.playerName # playerName)]]

\* drawCards with deck.slice(0, count): the deck keeps the cards drawn.
drawCardsBySlice(deck, count) ==
  LET k == Min(Max(count, 0), Len(deck)) IN
    [drawn |-> SubSeq(deck, 1, k), deck |-> deck]

\* drawCards that removes one card more than it was asked for.
drawCardsOneMore(deck, count) ==
  LET k == Min(Max(count + 1, 0), Len(deck)) IN
    [drawn |-> SubSeq(deck, 1, k), deck |-> SubSeq(deck, k + 1, Len(deck))]

\* deck.splice(0, count): the cards removed and the deck that remains.
drawCards(deck, count) ==
  LET k == Min(Max(count, 0), Len(deck)) IN
    [drawn |-> SubSeq(deck, 1, k), deck |-> SubSeq(deck, k + 1, Len(deck))]

\* The first live socket, in connection order, bound to (roomId, playerName);
\* Undefined when there is none.
FindSocket(roomId, playerName) ==
  LET hits == {i \in 1..Len(sockets) :
                 /\ data[sockets[i]].playerName = playerName
                 /\ data[sockets[i]].roomId = roomId}
  IN IF hits = {} THEN Undefined
     ELSE sockets[CHOOSE i \in hits : \A j \in hits : i <= j]

\* ------------------------------------------------------------------ Init
Init ==
  /\ rooms = <<>>
  /\ sockets = <<>>
  /\ data = [s \in Sockets |-> NoData]
  /\ emitted = <<>>
  /\ lastJoin = <<>>

\* ----------------------------------------------------------- connection
\* io.on('connection'): a new socket, with empty socket.data.
Connect(s) ==
  /\ ~Includes(sockets, s)
  /\ sockets' = Append(sockets, s)
  /\ data' = [data EXCEPT ![s] = NoData]
  /\ emitted' = <<>>
  /\ UNCHANGED <<rooms, lastJoin>>

\* -------------------------------------------------------------- join-room
JoinRoom(s, roomId, playerName) ==
  /\ Includes(sockets, s)
  /\ \E shuffled \in Shuffles :
       LET created == IF roomId \in DOMAIN rooms THEN rooms
                      ELSE SetKey(rooms, roomId, createNewRoom(shuffled))
           removed == removePlayerFromRoom(created, roomId, playerName)
           room == removed[roomId]
           players == Append(room.players, playerName)
           d == drawCards(room.deck, HandSize)
           hand == d.drawn
       IN /\ rooms' = [removed EXCEPT ![roomId] =
                         [room EXCEPT !.players = players,
                                      !.deck = d.deck,
                                      !.hands = SetKey(room.hands, playerName, hand)]]
          /\ emitted' = <<Msg(s, "deal-hand", hand),
                          Msg(roomId, "players-in-room", players)>>
  /\ lastJoin' = SetKey(lastJoin, roomId,
                        SetKey(IF roomId \in DOMAIN lastJoin
                               THEN lastJoin[roomId] ELSE <<>>,
                               playerName, s))
  /\ data' = [data EXCEPT ![s] = [roomId |-> roomId, playerName |-> playerName]]
  /\ UNCHANGED sockets

\* ----------------------------------------------------------- submit-title
\* The usedCards check without the length test.
ValidUsedCardsAnyLength(usedCards) == usedCards.isArray

\* Array.isArray(usedCards) && usedCards.length === 2
ValidUsedCards(usedCards) == usedCards.isArray /\ Len(usedCards.items) = 2

\* submit-title that pushes the new submission without dropping the
\* player's earlier one.
SubmitTitleKeepsEarlier(s, roomId, playerName, title, usedCards) ==
  /\ Includes(sockets, s)
  /\ IF roomId \notin DOMAIN rooms \/ ~ValidUsedCards(usedCards)
     THEN /\ rooms' = rooms
          /\ emitted' = <<>>
     ELSE LET room == rooms[roomId]
              submission == [playerName |-> playerName,
                             title |-> title,
                             turn |-> room.turn,
                             votes |-> 0,
                             usedCards |-> usedCards]
          IN /\ rooms' = [rooms EXCEPT ![roomId].submissions =
                            Append(room.submissions, submission)]
             /\ emitted' = <<Msg(roomId, "title-submitted",
                                 [playerName |-> playerName, title |-> title])>>
  /\ UNCHANGED <<sockets, data, lastJoin>>

SubmitTitle(s, roomId, playerName, title, usedCards) ==
  /\ Includes(sockets, s)
  /\ IF roomId \notin DOMAIN rooms \/ ~ValidUsedCards(usedCards)
     THEN /\ rooms' = rooms
          /\ emitted' = <<>>
     ELSE LET room == rooms[roomId]
              kept == Filter(room.submissions,
                             LAMBDA t : t.playerName # playerName)
              submission == [playerName |-> playerName,
                             title |-> title,
                             turn |-> room.turn,
                             votes |-> 0,
                             usedCards |-> usedCards]
          IN /\ rooms' = [rooms EXCEPT ![roomId].submissions =
                            Append(kept, submission)]
             /\ emitted' = <<Msg(roomId, "title-submitted",
                                 [playerName |-> playerName, title |-> title])>>
  /\ UNCHANGED <<sockets, data, lastJoin>>

\* ------------------------------------------------------------------- vote
\* Index of the first submission of targetName (Array.find), 0 when none.
FindSubmission(submissions, targetName) ==
  LET hits == {i \in 1..Len(submissions) :
                 submissions[i].playerName = targetName}
  IN IF hits = {} THEN 0 ELSE CHOOSE i \in hits : \A j \in hits : i <= j

\* The handler; a vote is taken only below MaxVoted and MaxTally.
Vote(s, roomId, playerName, targetName) ==
  /\ Includes(sockets, s)
  /\ roomId \in DOMAIN rooms =>
       /\ Len(rooms[roomId].votedPlayers) < MaxVoted
       /\ targetName \in DOMAIN rooms[roomId].votes =>
            rooms[roomId].votes[targetName] < MaxTally
  /\ IF roomId \notin DOMAIN rooms
     THEN /\ rooms' = rooms
          /\ emitted' = <<>>
     ELSE LET room == rooms[roomId]
              tally == IF targetName \in DOMAIN room.votes
                       THEN room.votes[targetName] ELSE 0
              votedPlayers == Append(room.votedPlayers, playerName)
              i == FindSubmission(room.submissions, targetName)
              submissions ==
                IF i = 0 THEN room.submissions
                ELSE [room.submissions EXCEPT ![i].votes = @ + 1]
          IN /\ rooms' = [rooms EXCEPT ![roomId] =
                            [room EXCEPT
                               !.votes = SetKey(room.votes, targetName, tally + 1),
                               !.votedPlayers = votedPlayers,
                               !.submissions = submissions]]
             /\ emitted' = IF Len(votedPlayers) = Len(room.players)
                           THEN <<Msg(roomId, "all-voted", Undefined)>>
                           ELSE <<>>
  /\ UNCHANGED <<sockets, data, lastJoin>>

\* ----------------------------------------------------------- discard-card
\* replenish reading deck[0] instead of deck.shift().
replenishByPeek(hand, deck) ==
  [hand |-> Append(hand, Head(deck)), deck |-> deck]

\* The replacement of a discarded card: deck.shift() and the push onto the
\* hand; the hand and the deck after it.
replenish(hand, deck) ==
  [hand |-> Append(hand, Head(deck)), deck |-> Tail(deck)]

DiscardCard(s, roomId, playerName, card) ==
  /\ Includes(sockets, s)
  /\ IF \/ roomId \notin DOMAIN rooms
        \/ playerName \notin DOMAIN rooms[roomId].hands
        \/ ~Includes(rooms[roomId].hands[playerName], card)
     THEN /\ rooms' = rooms
          /\ emitted' = <<>>
     ELSE LET room == rooms[roomId]
              filtered == Filter(room.hands[playerName], LAMBDA c : c # card)
          IN IF Len(room.deck) = 0
             THEN /\ rooms' = [rooms EXCEPT ![roomId].hands[playerName] = filtered]
                  /\ emitted' = <<>>
             ELSE LET r == replenish(filtered, room.deck)
                  IN /\ rooms' = [rooms EXCEPT
                                    ![roomId].hands[playerName] = r.hand,
                                    ![roomId].deck = r.deck]
                     /\ emitted' = <<Msg(s, "deal-hand", r.hand)>>
  /\ UNCHANGED <<sockets, data, lastJoin>>

\* ----------------------------------------------------------- request-hand
\* request-hand that answers with an empty hand when it finds none.
RequestHandAlwaysReplies(s, roomId, playerName) ==
  /\ Includes(sockets, s)
  /\ emitted' = IF /\ roomId \in DOMAIN rooms
                   /\ playerName \in DOMAIN rooms[roomId].hands
                THEN <<Msg(s, "deal-hand", rooms[roomId].hands[playerName])>>
                ELSE <<Msg(s, "deal-hand", <<>>)>>
  /\ UNCHANGED <<rooms, sockets, data, lastJoin>>

RequestHand(s, roomId, playerName) ==
  /\ Includes(sockets, s)
  /\ emitted' = IF /\ roomId \in DOMAIN rooms
                   /\ playerName \in DOMAIN rooms[roomId].hands
                THEN <<Msg(s, "deal-hand", rooms[roomId].hands[playerName])>>
                ELSE <<>>
  /\ UNCHANGED <<rooms, sockets, data, lastJoin>>

\* ---------------------------------------------------- ready-for-next-turn
\* room.readyPlayers.length === room.players.length
barrierReached(room) == Len(room.readyPlayers) = Len(room.players)

\* The loop over room.submissions of the turn being closed, from index i:
\* each submitter's hand loses the used cards and is refilled from the deck,
\* and is sent to the first socket bound to the submitter.
\* The hand update that takes the used cards of a submission out of every
\* hand of the room.
RECURSIVE processSubmissionsAllHands(_, _, _, _, _)
processSubmissionsAllHands(submissions, i, deck, hands, roomId) ==
  IF i > Len(submissions)
  THEN [deck |-> deck, hands |-> hands, out |-> <<>>]
  ELSE LET sub == submissions[i]
           hand == IF sub.playerName \in DOMAIN hands
                   THEN hands[sub.playerName] ELSE <<>>
           used == IF sub.usedCards.isArray THEN sub.usedCards.items ELSE <<>>
           newHand == Filter(hand, LAMBDA card : ~Includes(used, card))
           needed == HandSize - Len(newHand)
           d == drawCards(deck, needed)
           updated == newHand \o d.drawn
           socketId == FindSocket(roomId, sub.playerName)
           sent == IF socketId # Undefined
                   THEN <<Msg(socketId, "deal-hand", updated)>> ELSE <<>>
           others == [q \in DOMAIN hands |->
                        Filter(hands[q], LAMBDA card : ~Includes(used, card))]
           rest == processSubmissionsAllHands(
                     submissions, i + 1, d.deck,
                     SetKey(others, sub.playerName, updated), roomId)
       IN [rest EXCEPT !.out = sent \o @]

RECURSIVE processSubmissions(_, _, _, _, _)
processSubmissions(submissions, i, deck, hands, roomId) ==
  IF i > Len(submissions)
  THEN [deck |-> deck, hands |-> hands, out |-> <<>>]
  ELSE LET sub == submissions[i]
           hand == IF sub.playerName \in DOMAIN hands
                   THEN hands[sub.playerName] ELSE <<>>
           used == IF sub.usedCards.isArray THEN sub.usedCards.items ELSE <<>>
           newHand == Filter(hand, LAMBDA card : ~Includes(used, card))
           needed == HandSize - Len(newHand)
           d == drawCards(deck, needed)
           updated == newHand \o d.drawn
           socketId == FindSocket(roomId, sub.playerName)
           sent == IF socketId # Undefined
                   THEN <<Msg(socketId, "deal-hand", updated)>> ELSE <<>>
           rest == processSubmissions(submissions, i + 1, d.deck,
                                      SetKey(hands, sub.playerName, updated),
                                      roomId)
       IN [rest EXCEPT !.out = sent \o @]

\* resetForNextTurn without the increment of the turn counter.
resetKeepsTurn(room) ==
  [room EXCEPT !.votes = <<>>,
               !.votedPlayers = <<>>,
               !.readyPlayers = <<>>,
               !.submissions = <<>>]

\* resetForNextTurn without the clearing of votedPlayers.
resetKeepsVoted(room) ==
  [room EXCEPT !.turn = @ + 1,
               !.votes = <<>>,
               !.readyPlayers = <<>>,
               !.submissions = <<>>]

\* "次ターン準備": the turn counter and the per-turn state after an advance.
resetForNextTurn(room) ==
  [room EXCEPT !.turn = @ + 1,
               !.votes = <<>>,
               !.votedPlayers = <<>>,
               !.readyPlayers = <<>>,
               !.submissions = <<>>]

\* The loop over room.players that re-sends every hand, from index i.
RECURSIVE resendHands(_, _, _)
resendHands(room, i, roomId) ==
  IF i > Len(room.players) THEN <<>>
  ELSE LET player == room.players[i]
           socketId == FindSocket(roomId, player)
           payload == IF player \in DOMAIN room.hands
                      THEN room.hands[player] ELSE Undefined
           sent == IF socketId # Undefined
                   THEN <<Msg(socketId, "deal-hand", payload)>> ELSE <<>>
       IN sent \o resendHands(room, i + 1, roomId)

\* The handler; an advance is taken only below MaxTurn.
ReadyForNextTurn(s, roomId, playerName) ==
  /\ Includes(sockets, s)
  /\ IF roomId \notin DOMAIN rooms
     THEN /\ rooms' = rooms
          /\ emitted' = <<>>
     ELSE LET room == rooms[roomId]
              isNew == ~Includes(room.readyPlayers, playerName)
              marked == IF isNew
                        THEN [room EXCEPT !.readyPlayers = Append(@, playerName)]
                        ELSE room
              readyOut == IF isNew
                          THEN <<Msg(roomId, "player-ready-next", playerName)>>
                          ELSE <<>>
          IN IF barrierReached(marked) /\ marked.turnProcessed # marked.turn
             THEN LET p == processSubmissions(marked.submissions, 1,
                                              marked.deck, marked.hands, roomId)
                      dealt == [marked EXCEPT !.turnProcessed = marked.turn,
                                              !.deck = p.deck,
                                              !.hands = p.hands]
                      advanced == resetForNextTurn(dealt)
                  IN /\ room.turn < MaxTurn
                     /\ rooms' = [rooms EXCEPT ![roomId] = advanced]
                     /\ emitted' = readyOut \o p.out
                                     \o <<Msg(roomId, "next-turn", advanced.turn)>>
                                     \o resendHands(advanced, 1, roomId)
             ELSE /\ rooms' = [rooms EXCEPT ![roomId] = marked]
                  /\ emitted' = readyOut
  /\ UNCHANGED <<sockets, data, lastJoin>>

\* ------------------------------------------------------------- disconnect
Disconnect(s) ==
  /\ Includes(sockets, s)
  /\ LET roomId == data[s].roomId
         playerName == data[s].playerName
     IN IF roomId # Undefined /\ playerName # Undefined
        THEN LET removed == removePlayerFromRoom(rooms, roomId, playerName)
             IN /\ rooms' = removed
                /\ emitted' = <<Msg(roomId, "players-in-room",
                                    IF roomId \in DOMAIN removed
                                    THEN removed[roomId].players ELSE <<>>)>>
        ELSE /\ rooms' = rooms
             /\ emitted' = <<>>
  /\ sockets' = Filter(sockets, LAMBDA x : x # s)
  /\ data' = [data EXCEPT ![s] = NoData]
  /\ lastJoin' = [r \in DOMAIN lastJoin |->
                   [p \in DOMAIN lastJoin[r] \cap Range(rooms'[r].players) |->
                      lastJoin[r][p]]]

\* ------------------------------------------------------------------- Next
Next ==
  \/ \E s \in MainSockets : Connect(s)
  \/ \E s \in MainSockets, roomId \in RoomIds, playerName \in Names :
       JoinRoom(s, roomId, playerName)
  \/ \E s \in MainSockets, roomId \in RoomIds, playerName \in Names,
        title \in Titles, usedCards \in UsedCardsInputs :
       SubmitTitle(s, roomId, playerName, title, usedCards)
  \/ \E s \in MainSockets, roomId \in RoomIds, playerName \in Names,
        targetName \in VoteTargets :
       Vote(s, roomId, playerName, targetName)
  \/ \E s \in MainSockets, roomId \in RoomIds, playerName \in Names,
        card \in DiscardInputs :
       DiscardCard(s, roomId, playerName, card)
  \/ \E s \in MainSockets, roomId \in RoomIds, playerName \in Names :
       RequestHand(s, roomId, playerName)
  \/ \E s \in MainSockets, roomId \in RoomIds, playerName \in Names :
       ReadyForNextTurn(s, roomId, playerName)
  \/ \E s \in MainSockets : Disconnect(s)

Spec == Init /\ [][Next]_vars

\* ----------------------------------------------------------------
\* The events of two connections that are live at the same time, all of
\* them for the one player name in ConnNames.
ConnNames == {"a"}

NextConn ==
  \/ \E s \in Sockets : Connect(s)
  \/ \E s \in Sockets, roomId \in RoomIds, playerName \in ConnNames :
       JoinRoom(s, roomId, playerName)
  \/ \E s \in Sockets, roomId \in RoomIds, playerName \in ConnNames,
        title \in Titles, usedCards \in UsedCardsInputs :
       SubmitTitle(s, roomId, playerName, title, usedCards)
  \/ \E s \in Sockets, roomId \in RoomIds, playerName \in ConnNames,
        targetName \in VoteTargets :
       Vote(s, roomId, playerName, targetName)
  \/ \E s \in Sockets, roomId \in RoomIds, playerName \in ConnNames,
        card \in DiscardInputs :
       DiscardCard(s, roomId, playerName, card)
  \/ \E s \in Sockets, roomId \in RoomIds, playerName \in ConnNames :
       RequestHand(s, roomId, playerName)
  \/ \E s \in Sockets, roomId \in RoomIds, playerName \in ConnNames :
       ReadyForNextTurn(s, roomId, playerName)
  \/ \E s \in Sockets : Disconnect(s)

SpecConn == Init /\ [][NextConn]_vars

\* ======================================================================
\* Properties
\* ======================================================================
Count(seq, x) == Cardinality({i \in 1..Len(seq) : seq[i] = x})

RECURSIVE SumOver(_, _)
SumOver(S, f) ==
  IF S = {} THEN 0
  ELSE LET x == CHOOSE y \in S : TRUE IN f[x] + SumOver(S \ {x}, f)

\* How often a card occurs in the deck and the hands of a room.
Occurrences(room, card) ==
  Count(room.deck, card)
    + SumOver(DOMAIN room.hands,
              [p \in DOMAIN room.hands |-> Count(room.hands[p], card)])

\* The number of cards in the deck and the hands of a room.
TotalCards(room) ==
  Len(room.deck)
    + SumOver(DOMAIN room.hands,
              [p \in DOMAIN room.hands |-> Len(room.hands[p])])

\* The last handler emitted event ev to target `to`.
Emitted(to, ev) ==
  \E i \in 1..Len(emitted) : emitted[i].to = to /\ emitted[i].ev = ev

EmittedEvent(ev) == \E i \in 1..Len(emitted) : emitted[i].ev = ev

\* ---------------------------------------------------------------------
\* C1: one event raises a room's turn by at most 1, turn never decreases,
\* and the advance body (which records the turn it closes in turnProcessed)
\* runs at most once per turn number: it runs exactly in the steps that
\* raise turn, it records the turn it closed, and the recorded turn is
\* always below the current one, so no turn number is processed again.
C1_AdvanceOncePerTurn ==
  [][\A r \in DOMAIN rooms :
       /\ r \in DOMAIN rooms'
       /\ rooms'[r].turn \in {rooms[r].turn, rooms[r].turn + 1}
       /\ rooms[r].turnProcessed < rooms[r].turn
       /\ rooms'[r].turnProcessed < rooms'[r].turn
       /\ (rooms'[r].turnProcessed # rooms[r].turnProcessed)
            <=> (rooms'[r].turn = rooms[r].turn + 1)
       /\ (rooms'[r].turn = rooms[r].turn + 1)
            => (rooms'[r].turnProcessed = rooms[r].turn)]_vars

\* A room right after its first advance, the roster of two players still
\* there.
C1_Witness ==
  \E r \in DOMAIN rooms :
    /\ rooms[r].turn = 2
    /\ rooms[r].turnProcessed = 1
    /\ Len(rooms[r].players) = 2
    /\ Emitted(r, "next-turn")

\* ---------------------------------------------------------------------
\* C2: in every ready-for-next-turn step that raises a room's turn, every
\* name of the roster is in readyPlayers or is the name that signals in
\* this step (only names of the roster count toward the barrier).
C2_AdvanceOnlyWhenAllReady ==
  [][\A s \in Sockets, r \in RoomIds, p \in Names :
       (/\ ReadyForNextTurn(s, r, p)
        /\ r \in DOMAIN rooms
        /\ rooms'[r].turn > rooms[r].turn)
       => \A q \in Range(rooms[r].players) :
            q \in Range(rooms[r].readyPlayers) \cup {p}]_vars

\* ---------------------------------------------------------------------
\* C3: no room rests, between two events, in a state where its roster is
\* not empty and every player of the roster is in readyPlayers.
C3_NoRestWithAllReady ==
  \A r \in DOMAIN rooms :
    ~(/\ rooms[r].players # <<>>
      /\ Range(rooms[r].players) \subseteq Range(rooms[r].readyPlayers))

\* ---------------------------------------------------------------------
\* C4: every step that advances a room (its turn changes, or next-turn is
\* broadcast to it) leaves votes, votedPlayers, readyPlayers and
\* submissions empty and turn equal to its value before plus 1.
C4_AdvanceResets ==
  [][\A r \in DOMAIN rooms :
       (\/ rooms'[r].turn # rooms[r].turn
        \/ Emitted(r, "next-turn")')
       => /\ rooms'[r].votes = <<>>
          /\ rooms'[r].votedPlayers = <<>>
          /\ rooms'[r].readyPlayers = <<>>
          /\ rooms'[r].submissions = <<>>
          /\ rooms'[r].turn = rooms[r].turn + 1]_vars

\* A room right after an advance, emptied, with a player in it whose hand
\* was sent again.
C4_Witness ==
  \E r \in DOMAIN rooms :
    /\ Emitted(r, "next-turn")
    /\ EmittedEvent("deal-hand")
    /\ rooms[r].players # <<>>
    /\ rooms[r].votedPlayers = <<>>
    /\ rooms[r].submissions = <<>>

\* ---------------------------------------------------------------------
\* C5: all-voted is broadcast to a room only when every player of its
\* roster is in votedPlayers.
C5_AllVotedOnlyWhenAllVoted ==
  \A r \in DOMAIN rooms :
    Emitted(r, "all-voted")
      => Range(rooms[r].players) \subseteq Range(rooms[r].votedPlayers)

\* ---------------------------------------------------------------------
\* C6: in every room, no card occurs more often in the hands and the deck
\* together than in the catalog.
C6_NoCardDuplicated ==
  \A r \in DOMAIN rooms :
    \A card \in Range(allCards) :
      Occurrences(rooms[r], card) <= Count(allCards, card)

\* A room in its second turn where two players hold cards and the deck is
\* used up: cards were dealt, and drawn by the advance.
C6_Witness ==
  \E r \in DOMAIN rooms :
    /\ rooms[r].turn = 2
    /\ rooms[r].deck = <<>>
    /\ TotalCards(rooms[r]) < NumCards
    /\ \A p \in Names :
         p \in DOMAIN rooms[r].hands /\ rooms[r].hands[p] # <<>>

\* ---------------------------------------------------------------------
\* The step is a discard-card in room r, for a card the player holds, that
\* meets an empty deck: a discard without replacement.
ExhaustedDiscard(r) ==
  /\ r \in DOMAIN rooms
  /\ rooms[r].deck = <<>>
  /\ \E s \in Sockets, p \in Names, card \in DiscardInputs :
       /\ p \in DOMAIN rooms[r].hands
       /\ Includes(rooms[r].hands[p], card)
       /\ DiscardCard(s, r, p, card)

\* C7 as stated: in every room the cards in the hands and the deck number
\* the catalog size minus the discards without replacement, that is: they
\* number the catalog size once the room is created, each discard without
\* replacement lowers their number by 1, and no other event changes it.
C7_TotalEqualsCatalogMinusExhausted ==
  [][\A r \in DOMAIN rooms' :
       IF r \notin DOMAIN rooms
       THEN TotalCards(rooms'[r]) = NumCards
       ELSE TotalCards(rooms'[r]) =
              TotalCards(rooms[r]) - (IF ExhaustedDiscard(r) THEN 1 ELSE 0)]_vars

\* C7 amended: in every room the cards in the hands and the deck number
\* the catalog size once the room is created, no event raises their number,
\* and each discard without replacement lowers it by exactly 1 (so their
\* number is at most the catalog size minus the discards without
\* replacement).
C7_TotalBoundedAndNeverGrows ==
  [][\A r \in DOMAIN rooms' :
       IF r \notin DOMAIN rooms
       THEN TotalCards(rooms'[r]) = NumCards
       ELSE /\ TotalCards(rooms'[r]) <= TotalCards(rooms[r])
            /\ TotalCards(rooms'[r]) # TotalCards(rooms[r]) - 1
                 => ~ExhaustedDiscard(r)]_vars

\* A room of two players, right after a discard that met the empty deck:
\* nothing was emitted and a card is missing.
C7_Witness ==
  \E r \in DOMAIN rooms :
    /\ rooms[r].deck = <<>>
    /\ emitted = <<>>
    /\ Len(rooms[r].players) = 2
    /\ TotalCards(rooms[r]) = NumCards - 1

\* ---------------------------------------------------------------------
\* C8: no roster holds a name twice, and every join-room step of
\* (roomId, playerName) leaves the name exactly once in the roster, with a
\* hand, and with no entry in votedPlayers, readyPlayers, the tally or the
\* submissions.
C8_JoinIdempotent ==
  [][/\ \A r \in DOMAIN rooms' : \A q \in Names :
          Count(rooms'[r].players, q) <= 1
     /\ \A s \in Sockets, r \in RoomIds, p \in Names :
          (/\ data'[s] = [roomId |-> r, playerName |-> p]
           /\ JoinRoom(s, r, p))
          => /\ Count(rooms'[r].players, p) = 1
             /\ p \in DOMAIN rooms'[r].hands
             /\ ~Includes(rooms'[r].votedPlayers, p)
             /\ ~Includes(rooms'[r].readyPlayers, p)
             /\ p \notin DOMAIN rooms'[r].votes
             /\ \A i \in 1..Len(rooms'[r].submissions) :
                  rooms'[r].submissions[i].playerName # p]_vars

\* A room right after a join into a game in progress: the other player has
\* voted, is ready and has a submission, and the joiner has none of these.
C8_Witness ==
  \E r \in DOMAIN rooms, s \in Sockets :
    /\ Len(emitted) = 2
    /\ emitted[1].ev = "deal-hand" /\ emitted[1].to = s
    /\ emitted[2].ev = "players-in-room"
    /\ data[s].roomId = r
    /\ Len(rooms[r].players) = 2
    /\ rooms[r].players[2] = data[s].playerName
    /\ Len(rooms[r].votedPlayers) = 1
    /\ Len(rooms[r].readyPlayers) = 1
    /\ Len(rooms[r].submissions) = 1
    /\ DOMAIN rooms[r].votes # {}

\* ---------------------------------------------------------------------
\* C9: a submit-title step whose usedCards is not an array of exactly 2
\* cards leaves every room unchanged and broadcasts no title-submitted
\* (every step either has that effect or is no such submit-title step).
C9_InvalidSubmitIgnored ==
  [][\/ /\ rooms' = rooms
        /\ ~EmittedEvent("title-submitted")'
     \/ ~\E s \in Sockets, r \in RoomIds, p \in Names, t \in Titles,
           u \in UsedCardsInputs :
          /\ ~(u.isArray /\ Len(u.items) = 2)
          /\ SubmitTitle(s, r, p, t, u)]_vars

\* A room that holds a submission and whose last event emitted nothing, as
\* after a rejected submit-title.
C9_Witness ==
  \E r \in DOMAIN rooms :
    /\ rooms[r].submissions # <<>>
    /\ rooms[r].players # <<>>
    /\ emitted = <<>>

\* ---------------------------------------------------------------------
\* C10: a discard-card step for a card the player holds, in a room whose
\* deck is empty, leaves the player's hand unchanged and sends no deal-hand.
C10_DiscardOnEmptyDeckNoOp ==
  [][\A s \in Sockets, r \in RoomIds, p \in Names, card \in DiscardInputs :
       (/\ DiscardCard(s, r, p, card)
        /\ r \in DOMAIN rooms
        /\ rooms[r].deck = <<>>
        /\ p \in DOMAIN rooms[r].hands
        /\ Includes(rooms[r].hands[p], card))
       => /\ rooms'[r].hands[p] = rooms[r].hands[p]
          /\ ~EmittedEvent("deal-hand")']_vars
\* ---------------------------------------------------------------------
\* C11: after every step each room holds at most one submission per player
\* name and every submission carries the room's current turn; a valid
\* submit-title by a player who already has a submission leaves the number
\* of submissions unchanged and puts the new submission last.
C11_OneSubmissionPerPlayer ==
  [][/\ \A r \in DOMAIN rooms' :
          LET subs == rooms'[r].submissions
          IN /\ \A i \in 1..Len(subs) : subs[i].turn = rooms'[r].turn
             /\ \A i, j \in 1..Len(subs) :
                  subs[i].playerName = subs[j].playerName => i = j
     /\ \A r \in DOMAIN rooms, p \in Names :
          (/\ \E i \in 1..Len(rooms[r].submissions) :
                 rooms[r].submissions[i].playerName = p
           /\ \E s \in Sockets, t \in Titles, u \in UsedCardsInputs :
                 /\ u.isArray /\ Len(u.items) = 2
                 /\ SubmitTitle(s, r, p, t, u))
          => LET subs == rooms'[r].submissions
             IN /\ Len(subs) = Len(rooms[r].submissions)
                /\ subs[Len(subs)].playerName = p
                /\ subs[Len(subs)].votes = 0]_vars

\* Two players have submitted in the second turn and the submission of the
\* player who joined first is the later one, right after a submit-title.
C11_Witness ==
  \E r \in DOMAIN rooms :
    LET room == rooms[r]
    IN /\ room.turn = 2
       /\ Len(room.players) = 2
       /\ Len(room.submissions) = 2
       /\ room.submissions[2].playerName = room.players[1]
       /\ room.submissions[2].turn = 2
       /\ EmittedEvent("title-submitted")

\* ---------------------------------------------------------------------
\* C12: in every state the vote count of every recorded submission equals
\* the room's tally for the submitting player (a missing tally counts 0).
C12_TallyMirrored ==
  \A r \in DOMAIN rooms :
    \A i \in 1..Len(rooms[r].submissions) :
      LET sub == rooms[r].submissions[i]
      IN sub.votes = IF sub.playerName \in DOMAIN rooms[r].votes
                     THEN rooms[r].votes[sub.playerName]
                     ELSE 0

\* ---------------------------------------------------------------------
\* The sequence seq without the entries equal to name.
Without(seq, name) == SelectSeq(seq, LAMBDA n : n # name)

\* C13: a disconnect step of a connection bound to (r, p) leaves p absent
\* from the roster, votedPlayers, readyPlayers, the keys of votes, the keys
\* of hands and the submissions of room r, and leaves every other entry of
\* the room, its deck and its turn as they were; a disconnect step of a
\* connection without binding, or bound to a room that does not exist,
\* leaves the rooms unchanged.
C13_LeaveCompleteAndSafe ==
  [][\A s \in Sockets :
       (Includes(sockets, s) /\ ~Includes(sockets', s)) =>
         LET r == data[s].roomId
             p == data[s].playerName
         IN IF r = Undefined \/ p = Undefined \/ r \notin DOMAIN rooms
            THEN rooms' = rooms
            ELSE LET old == rooms[r]
                     new == rooms'[r]
                 IN /\ DOMAIN rooms' = DOMAIN rooms
                    /\ \A q \in DOMAIN rooms \ {r} : rooms'[q] = rooms[q]
                    /\ new.players = Without(old.players, p)
                    /\ new.votedPlayers = Without(old.votedPlayers, p)
                    /\ new.readyPlayers = Without(old.readyPlayers, p)
                    /\ DOMAIN new.votes = DOMAIN old.votes \ {p}
                    /\ \A q \in DOMAIN new.votes : new.votes[q] = old.votes[q]
                    /\ DOMAIN new.hands = DOMAIN old.hands \ {p}
                    /\ \A q \in DOMAIN new.hands : new.hands[q] = old.hands[q]
                    /\ new.submissions =
                         SelectSeq(old.submissions,
                                   LAMBDA t : t.playerName # p)
                    /\ new.deck = old.deck
                    /\ new.turn = old.turn
                    /\ new.turnProcessed = old.turnProcessed]_vars

\* The only connection has disconnected and its player is gone, while
\* another player of the room still has a hand, a submission, a tally and
\* a ready signal.
C13_Witness ==
  \E r \in DOMAIN rooms :
    LET room == rooms[r]
    IN /\ sockets = <<>>
       /\ Emitted(r, "players-in-room")
       /\ Len(room.players) = 1
       /\ DOMAIN room.hands = {room.players[1]}
       /\ DOMAIN room.votes = {room.players[1]}
       /\ room.readyPlayers = room.players
       /\ \E i \in 1..Len(room.submissions) :
            room.submissions[i].playerName = room.players[1]

\* ---------------------------------------------------------------------
\* The names that have a submission recorded in a room.
Submitters(room) ==
  {room.submissions[i].playerName : i \in 1..Len(room.submissions)}

\* C14: a step that advances the turn of a room leaves unchanged the hand of
\* every roster player without a submission, and every card that leaves
\* the deck in that step is in the new hand of a player with a submission.
C14_NonSubmitterHandUnchanged ==
  [][\A r \in DOMAIN rooms :
       rooms'[r].turn = rooms[r].turn + 1 =>
         /\ \A q \in Range(rooms[r].players) \ Submitters(rooms[r]) :
              /\ q \in DOMAIN rooms'[r].hands
              /\ rooms'[r].hands[q] = rooms[r].hands[q]
         /\ \A card \in Range(rooms[r].deck) \ Range(rooms'[r].deck) :
              \E q \in Submitters(rooms[r]) :
                Includes(rooms'[r].hands[q], card)]_vars

\* Right after an advance that processed a submission in a room of two
\* players, a player still holds the cards 1 and 2 that the submission used.
C14_Witness ==
  \E r \in DOMAIN rooms :
    /\ Len(rooms[r].players) = 2
    /\ \E i, j \in 1..Len(emitted) :
         /\ i < j
         /\ emitted[i].ev = "deal-hand"
         /\ emitted[j].ev = "next-turn"
    /\ \E q \in Range(rooms[r].players) :
         /\ Includes(rooms[r].hands[q], 1)
         /\ Includes(rooms[r].hands[q], 2)

\* ---------------------------------------------------------------------
\* The hand of the i-th submitter of a room without the cards the
\* submission used (an absent hand is empty).
Stripped(room, i) ==
  LET sub == room.submissions[i]
      hand == IF sub.playerName \in DOMAIN room.hands
              THEN room.hands[sub.playerName] ELSE <<>>
  IN SelectSeq(hand, LAMBDA card :
                 \A k \in 1..Len(sub.usedCards.items) :
                   sub.usedCards.items[k] # card)

\* The number of cards the first i submissions of a room take off the deck.
RECURSIVE Taken(_, _)
Taken(room, i) ==
  IF i = 0 THEN 0
  ELSE LET before == Taken(room, i - 1)
           missing == HandSize - Len(Stripped(room, i))
           left == Len(room.deck) - before
       IN before + (IF missing < left THEN missing ELSE left)

C16_RoomsOnlyByJoinNeverDestroyed ==
  [][/\ DOMAIN rooms \subseteq DOMAIN rooms'
     /\ DOMAIN rooms' # DOMAIN rooms =>
          \E s \in Sockets, r \in RoomIds \ DOMAIN rooms, p \in Names :
            /\ DOMAIN rooms' = DOMAIN rooms \cup {r}
            /\ data'[s] = [roomId |-> r, playerName |-> p]
            /\ JoinRoom(s, r, p)
     /\ \A s \in Sockets :
          data'[s].roomId # Undefined => data'[s].roomId \in DOMAIN rooms'
     /\ \A s \in Sockets :
          (/\ Includes(sockets, s)
           /\ ~Includes(sockets', s)
           /\ data[s].roomId \notin DOMAIN rooms)
          => rooms' = rooms /\ emitted' = <<>>
     /\ \/ DOMAIN rooms = RoomIds
        \/ /\ rooms' = rooms
           /\ data' = data
           /\ emitted' = <<>>
        \/ ~\E s \in Sockets, r \in RoomIds \ DOMAIN rooms, p \in Names :
              \/ \E t \in Titles, u \in UsedCardsInputs :
                   SubmitTitle(s, r, p, t, u)
              \/ \E target \in VoteTargets : Vote(s, r, p, target)
              \/ \E card \in DiscardInputs : DiscardCard(s, r, p, card)
              \/ RequestHand(s, r, p)
              \/ ReadyForNextTurn(s, r, p)]_vars

\* A room whose last player has just left is still in the registry, with
\* an empty roster and a deck that was drawn from.
C16_Witness ==
  \E r \in DOMAIN rooms :
    /\ rooms[r].players = <<>>
    /\ Len(rooms[r].deck) < NumCards
    /\ sockets = <<>>
    /\ emitted = <<Msg(r, "players-in-room", <<>>)>>

\* ---------------------------------------------------------------------
\* The payload of the last message ev sent to a connection in the last
\* event, Undefined when none was sent.
LastSent(to, ev) ==
  LET idx == {i \in 1..Len(emitted) : emitted[i].to = to /\ emitted[i].ev = ev}
  IN IF idx = {} THEN Undefined
     ELSE emitted[CHOOSE i \in idx : \A j \in idx : j <= i].payload

\* C17: in the state right after a turn advance of a room, for every roster
\* player the connection that most recently joined as that player has
\* received a deal-hand in the advance, and the last one it received
\* carries the player's hand in the room.
C17_AdvanceDealsToLatestJoiner ==
  \A r \in DOMAIN rooms :
    Emitted(r, "next-turn") =>
      \A i \in 1..Len(rooms[r].players) :
        LET p == rooms[r].players[i]
            s == lastJoin[r][p]
        IN /\ Emitted(s, "deal-hand")
           /\ LastSent(s, "deal-hand") = rooms[r].hands[p]

\* ---------------------------------------------------------------------
\* C18: a disconnect step takes a name out of the roster of a room only
\* when the disconnecting connection is the one that most recently joined
\* as that name; otherwise the room is unchanged.
C18_OnlyLatestJoinerDisconnectRemoves ==
  [][\A s \in Sockets :
       (Includes(sockets, s) /\ ~Includes(sockets', s)) =>
         \A r \in DOMAIN rooms :
           \/ rooms'[r] = rooms[r]
           \/ \E p \in Range(rooms[r].players) :
                /\ lastJoin[r][p] = s
                /\ Range(rooms'[r].players) = Range(rooms[r].players) \ {p}]_vars

\* ---------------------------------------------------------------------
\* C19: in every state every name in the roster of a room has a live
\* connection whose binding is that room and that name.
C19_RosterNamesHaveConnection ==
  \A r \in DOMAIN rooms :
    \A i \in 1..Len(rooms[r].players) :
      \E s \in Range(sockets) :
        data[s] = [roomId |-> r, playerName |-> rooms[r].players[i]]

\* ---------------------------------------------------------------------
\* C20: in every state the names that have a hand in a room are the names
\* in its roster.
C20_HandsExactlyForRoster ==
  \A r \in DOMAIN rooms :
    DOMAIN rooms[r].hands = Range(rooms[r].players)
====
